---- MODULE Spec2Model ----
(***************************************************************************)
(* Radix encodings of RFC 4648 as implemented in src/hex.ts, src/base32.ts *)
(* and src/base64.ts: hexadecimal, Base32 and Base64/Base64url encoders    *)
(* and decoders.  A text is a sequence of one-character strings, a byte    *)
(* sequence a sequence of numbers in 0..255.  Every public function is an  *)
(* action of the state machine; the functions themselves are operators     *)
(* that follow the loops of the source.                                    *)
(***************************************************************************)
EXTENDS Integers, Sequences, FiniteSets, TLC

VARIABLES data,      \* the byte sequence handed to an encoder
          encoder,   \* the encode function that was called, or "none"
          encoded,   \* the text: an encoder's return value or a caller's string
          decoder,   \* the decode function that was called, or "none"
          result     \* the decoder's outcome: bytes returned or error thrown

vars == <<data, encoder, encoded, decoder, result>>

(***************************************************************************)
(* Bounds of the input sets.                                               *)
(***************************************************************************)
MaxBytes == 6
MaxHexLen == 4
MaxBase64Len == 4
MaxBase32Tail == 3
MaxBase32Len == 8

(***************************************************************************)
(* JavaScript number operators on the non-negative values the code uses    *)
(* (all below 2^31, so no 32-bit wrap-around occurs).                      *)
(***************************************************************************)
Shl(x, n) == x * (2 ^ n)

Shr(x, n) == x \div (2 ^ n)

RECURSIVE BitAnd(_, _)
BitAnd(x, y) ==
    IF x = 0 \/ y = 0 THEN 0
    ELSE (x % 2) * (y % 2) + 2 * BitAnd(x \div 2, y \div 2)

RECURSIVE BitOr(_, _)
BitOr(x, y) ==
    IF x = 0 THEN y
    ELSE IF y = 0 THEN x
    ELSE (IF x % 2 = 1 \/ y % 2 = 1 THEN 1 ELSE 0) + 2 * BitOr(x \div 2, y \div 2)

\* encoded[k] of a JavaScript string: the character, or undefined past the end
\* (as a property key, undefined is the string "undefined")
CharAt(s, k) == IF k >= 0 /\ k < Len(s) THEN s[k + 1] ELSE "undefined"

\* a returned Uint8Array, or a thrown Error with its message; i and j are the
\* loop counters of the decoder at the throw
Ok(bytes) == [ok |-> TRUE, bytes |-> bytes, err |-> "", i |-> 0, j |-> 0]

Throw(message, i, j) == [ok |-> FALSE, bytes |-> <<>>, err |-> message, i |-> i, j |-> j]

Include == "Include"

None == "None"

Required == "Required"

Ignore == "Ignore"

(***************************************************************************)
(* src/hex.ts                                                              *)
(***************************************************************************)
alphabetUpperCase == <<
    "0", "1", "2", "3", "4", "5", "6", "7", "8", "9", "A", "B", "C", "D", "E", "F" >>

alphabetLowerCase == <<
    "0", "1", "2", "3", "4", "5", "6", "7", "8", "9", "a", "b", "c", "d", "e", "f" >>

decodeMap ==
    ("0" :> 0) @@ ("1" :> 1) @@ ("2" :> 2) @@ ("3" :> 3) @@ ("4" :> 4) @@ ("5" :> 5) @@
    ("6" :> 6) @@ ("7" :> 7) @@ ("8" :> 8) @@ ("9" :> 9) @@ ("a" :> 10) @@ ("A" :> 10) @@
    ("b" :> 11) @@ ("B" :> 11) @@ ("c" :> 12) @@ ("C" :> 12) @@ ("d" :> 13) @@ ("D" :> 13) @@
    ("e" :> 14) @@ ("E" :> 14) @@ ("f" :> 15) @@ ("F" :> 15)

RECURSIVE encodeHex_loop(_, _, _, _)
encodeHex_loop(bytes, alphabet, i, acc) ==
    IF i < Len(bytes)
    THEN encodeHex_loop(bytes, alphabet, i + 1,
             acc \o << alphabet[Shr(bytes[i + 1], 4) + 1],
                       alphabet[BitAnd(bytes[i + 1], 15) + 1] >>)
    ELSE acc

encodeHexUpperCase(bytes) == encodeHex_loop(bytes, alphabetUpperCase, 0, <<>>)

encodeHexLowerCase(bytes) == encodeHex_loop(bytes, alphabetLowerCase, 0, <<>>)

RECURSIVE decodeHex_loop(_, _, _)
decodeHex_loop(text, i, acc) ==
    IF i < Len(text)
    THEN IF CharAt(text, i) \notin DOMAIN decodeMap
         THEN Throw("Invalid character", i, 0)
         ELSE IF CharAt(text, i + 1) \notin DOMAIN decodeMap
         THEN Throw("Invalid character", i, 1)
         ELSE decodeHex_loop(text, i + 2,
                  Append(acc, BitOr(BitOr(0, Shl(decodeMap[CharAt(text, i)], 4)),
                                    decodeMap[CharAt(text, i + 1)]) % 256))
    ELSE Ok(acc)

\* faulty variant: the length is looked at only after the characters
decodeHex_lengthCheck_late(text) ==
    Len(text) % 2 # 0 /\ \A k \in 1..Len(text) : text[k] \in DOMAIN decodeMap

\* line 67
decodeHex_lengthCheck(text) == Len(text) % 2 # 0

decodeHex(text) ==
    IF decodeHex_lengthCheck(text)
    THEN Throw("Invalid hex string", 0, 0)
    ELSE decodeHex_loop(text, 0, <<>>)

(***************************************************************************)
(* src/base64.ts                                                           *)
(***************************************************************************)
base64Alphabet == <<
    "A", "B", "C", "D", "E", "F", "G", "H", "I", "J", "K", "L", "M", "N", "O", "P",
    "Q", "R", "S", "T", "U", "V", "W", "X", "Y", "Z", "a", "b", "c", "d", "e", "f",
    "g", "h", "i", "j", "k", "l", "m", "n", "o", "p", "q", "r", "s", "t", "u", "v",
    "w", "x", "y", "z", "0", "1", "2", "3", "4", "5", "6", "7", "8", "9", "+", "/" >>

base64urlAlphabet == <<
    "A", "B", "C", "D", "E", "F", "G", "H", "I", "J", "K", "L", "M", "N", "O", "P",
    "Q", "R", "S", "T", "U", "V", "W", "X", "Y", "Z", "a", "b", "c", "d", "e", "f",
    "g", "h", "i", "j", "k", "l", "m", "n", "o", "p", "q", "r", "s", "t", "u", "v",
    "w", "x", "y", "z", "0", "1", "2", "3", "4", "5", "6", "7", "8", "9", "-", "_" >>

base64DecodeMap ==
    ("0" :> 52) @@ ("1" :> 53) @@ ("2" :> 54) @@ ("3" :> 55) @@ ("4" :> 56) @@ ("5" :> 57) @@
    ("6" :> 58) @@ ("7" :> 59) @@ ("8" :> 60) @@ ("9" :> 61) @@ ("A" :> 0) @@ ("B" :> 1) @@
    ("C" :> 2) @@ ("D" :> 3) @@ ("E" :> 4) @@ ("F" :> 5) @@ ("G" :> 6) @@ ("H" :> 7) @@
    ("I" :> 8) @@ ("J" :> 9) @@ ("K" :> 10) @@ ("L" :> 11) @@ ("M" :> 12) @@ ("N" :> 13) @@
    ("O" :> 14) @@ ("P" :> 15) @@ ("Q" :> 16) @@ ("R" :> 17) @@ ("S" :> 18) @@ ("T" :> 19) @@
    ("U" :> 20) @@ ("V" :> 21) @@ ("W" :> 22) @@ ("X" :> 23) @@ ("Y" :> 24) @@ ("Z" :> 25) @@
    ("a" :> 26) @@ ("b" :> 27) @@ ("c" :> 28) @@ ("d" :> 29) @@ ("e" :> 30) @@ ("f" :> 31) @@
    ("g" :> 32) @@ ("h" :> 33) @@ ("i" :> 34) @@ ("j" :> 35) @@ ("k" :> 36) @@ ("l" :> 37) @@
    ("m" :> 38) @@ ("n" :> 39) @@ ("o" :> 40) @@ ("p" :> 41) @@ ("q" :> 42) @@ ("r" :> 43) @@
    ("s" :> 44) @@ ("t" :> 45) @@ ("u" :> 46) @@ ("v" :> 47) @@ ("w" :> 48) @@ ("x" :> 49) @@
    ("y" :> 50) @@ ("z" :> 51) @@ ("+" :> 62) @@ ("/" :> 63)

base64urlDecodeMap ==
    ("0" :> 52) @@ ("1" :> 53) @@ ("2" :> 54) @@ ("3" :> 55) @@ ("4" :> 56) @@ ("5" :> 57) @@
    ("6" :> 58) @@ ("7" :> 59) @@ ("8" :> 60) @@ ("9" :> 61) @@ ("A" :> 0) @@ ("B" :> 1) @@
    ("C" :> 2) @@ ("D" :> 3) @@ ("E" :> 4) @@ ("F" :> 5) @@ ("G" :> 6) @@ ("H" :> 7) @@
    ("I" :> 8) @@ ("J" :> 9) @@ ("K" :> 10) @@ ("L" :> 11) @@ ("M" :> 12) @@ ("N" :> 13) @@
    ("O" :> 14) @@ ("P" :> 15) @@ ("Q" :> 16) @@ ("R" :> 17) @@ ("S" :> 18) @@ ("T" :> 19) @@
    ("U" :> 20) @@ ("V" :> 21) @@ ("W" :> 22) @@ ("X" :> 23) @@ ("Y" :> 24) @@ ("Z" :> 25) @@
    ("a" :> 26) @@ ("b" :> 27) @@ ("c" :> 28) @@ ("d" :> 29) @@ ("e" :> 30) @@ ("f" :> 31) @@
    ("g" :> 32) @@ ("h" :> 33) @@ ("i" :> 34) @@ ("j" :> 35) @@ ("k" :> 36) @@ ("l" :> 37) @@
    ("m" :> 38) @@ ("n" :> 39) @@ ("o" :> 40) @@ ("p" :> 41) @@ ("q" :> 42) @@ ("r" :> 43) @@
    ("s" :> 44) @@ ("t" :> 45) @@ ("u" :> 46) @@ ("v" :> 47) @@ ("w" :> 48) @@ ("x" :> 49) @@
    ("y" :> 50) @@ ("z" :> 51) @@ ("-" :> 62) @@ ("_" :> 63)

\* lines 90-94: read up to 3 bytes into the buffer
RECURSIVE encodeBase64_read(_, _, _, _, _)
encodeBase64_read(bytes, i, j, buffer, bufferBitSize) ==
    IF j < 3 /\ i + j < Len(bytes)
    THEN encodeBase64_read(bytes, i, j + 1,
             BitOr(Shl(buffer, 8), bytes[i + j + 1]), bufferBitSize + 8)
    ELSE [buffer |-> buffer, bufferBitSize |-> bufferBitSize]

\* faulty variant: the two members of EncodingPadding mixed up
encodeBase64_padding_inverted(padding) == padding = None

\* line 106
encodeBase64_padding(padding) == padding = Include

\* lines 97-110: emit the 4 characters of the chunk
RECURSIVE encodeBase64_emit(_, _, _, _, _, _)
encodeBase64_emit(alphabet, padding, j, buffer, bufferBitSize, acc) ==
    IF j >= 4 THEN acc
    ELSE IF bufferBitSize >= 6
    THEN encodeBase64_emit(alphabet, padding, j + 1, buffer, bufferBitSize - 6,
             Append(acc, alphabet[BitAnd(Shr(buffer, bufferBitSize - 6), 63) + 1]))
    ELSE IF bufferBitSize > 0
    THEN encodeBase64_emit(alphabet, padding, j + 1, buffer, 0,
             Append(acc, alphabet[BitAnd(Shl(buffer, 6 - bufferBitSize), 63) + 1]))
    ELSE IF encodeBase64_padding(padding)
    THEN encodeBase64_emit(alphabet, padding, j + 1, buffer, bufferBitSize,
             Append(acc, "="))
    ELSE encodeBase64_emit(alphabet, padding, j + 1, buffer, bufferBitSize, acc)

RECURSIVE encodeBase64_loop(_, _, _, _, _)
encodeBase64_loop(bytes, alphabet, padding, i, acc) ==
    IF i < Len(bytes)
    THEN LET b == encodeBase64_read(bytes, i, 0, 0, 0)
         IN  encodeBase64_loop(bytes, alphabet, padding, i + 3,
                 encodeBase64_emit(alphabet, padding, 0, b.buffer, b.bufferBitSize, acc))
    ELSE acc

encodeBase64_internal(bytes, alphabet, padding) ==
    encodeBase64_loop(bytes, alphabet, padding, 0, <<>>)

encodeBase64(bytes) == encodeBase64_internal(bytes, base64Alphabet, Include)

encodeBase64NoPadding(bytes) == encodeBase64_internal(bytes, base64Alphabet, None)

encodeBase64url(bytes) == encodeBase64_internal(bytes, base64urlAlphabet, Include)

encodeBase64urlNoPadding(bytes) == encodeBase64_internal(bytes, base64urlAlphabet, None)

\* faulty variant: Ignore mode misses the first position past the end
decodeBase64_skip_offByOne(text, padding, i, j) ==
    \/ padding = Required /\ CharAt(text, i + j) = "="
    \/ padding = Ignore /\ (i + j > Len(text) \/ CharAt(text, i + j) = "=")

\* lines 203-213: the positions the inner loop skips with continue
decodeBase64_skip(text, padding, i, j) ==
    \/ padding = Required /\ CharAt(text, i + j) = "="
    \/ padding = Ignore /\ (i + j >= Len(text) \/ CharAt(text, i + j) = "=")

\* faulty variant: looks at the current character instead of the previous
decodeBase64_afterPad_current(text, i, j) == j > 0 /\ CharAt(text, i + j) = "="

\* line 216: a character right after a pad character
decodeBase64_afterPad(text, i, j) == j > 0 /\ CharAt(text, i + j - 1) = "="

\* lines 201-228: the inner loop over the 4 positions of a window
RECURSIVE decodeBase64_window(_, _, _, _, _, _, _)
decodeBase64_window(text, map, padding, i, j, chunk, bitsRead) ==
    IF j >= 4 THEN [err |-> "", j |-> j, chunk |-> chunk, bitsRead |-> bitsRead]
    ELSE IF decodeBase64_skip(text, padding, i, j)
    THEN decodeBase64_window(text, map, padding, i, j + 1, chunk, bitsRead)
    ELSE IF decodeBase64_afterPad(text, i, j)
    THEN [err |-> "Invalid padding", j |-> j, chunk |-> chunk, bitsRead |-> bitsRead]
    ELSE IF CharAt(text, i + j) \notin DOMAIN map
    THEN [err |-> "Invalid character", j |-> j, chunk |-> chunk, bitsRead |-> bitsRead]
    ELSE decodeBase64_window(text, map, padding, i, j + 1,
             BitOr(chunk, Shl(map[CharAt(text, i + j)], (3 - j) * 6)), bitsRead + 6)

\* faulty variant: the mask of the 18-bit case covers 6 bits instead of 8
decodeBase64_shortInvalid_narrowMask(chunk, bitsRead) ==
    /\ bitsRead < 24
    /\ IF bitsRead = 12 THEN BitAnd(chunk, 65535) # 0
       ELSE IF bitsRead = 18 THEN BitAnd(chunk, 63) # 0
       ELSE TRUE

\* lines 231-245: TRUE when the short-window check throws
decodeBase64_shortInvalid(chunk, bitsRead) ==
    /\ bitsRead < 24
    /\ IF bitsRead = 12 THEN BitAnd(chunk, 65535) # 0
       ELSE IF bitsRead = 18 THEN BitAnd(chunk, 255) # 0
       ELSE TRUE

\* lines 248-253: the bytes of the window, most significant first
decodeBase64_bytes(chunk, bitsRead) ==
    [b \in 1..(bitsRead \div 8) |-> BitAnd(Shr(chunk, 16 - (b - 1) * 8), 255)]

RECURSIVE decodeBase64_loop(_, _, _, _, _)
decodeBase64_loop(text, map, padding, i, acc) ==
    IF i < Len(text)
    THEN LET w == decodeBase64_window(text, map, padding, i, 0, 0, 0)
         IN  IF w.err # "" THEN Throw(w.err, i, w.j)
             ELSE IF decodeBase64_shortInvalid(w.chunk, w.bitsRead)
             THEN Throw("Invalid padding", i, 4)
             ELSE decodeBase64_loop(text, map, padding, i + 4,
                      acc \o decodeBase64_bytes(w.chunk, w.bitsRead))
    ELSE Ok(acc)

decodeBase64_internal(text, map, padding) == decodeBase64_loop(text, map, padding, 0, <<>>)

decodeBase64(text) == decodeBase64_internal(text, base64DecodeMap, Required)

decodeBase64IgnorePadding(text) == decodeBase64_internal(text, base64DecodeMap, Ignore)

decodeBase64url(text) == decodeBase64_internal(text, base64urlDecodeMap, Required)

decodeBase64urlIgnorePadding(text) == decodeBase64_internal(text, base64urlDecodeMap, Ignore)

(***************************************************************************)
(* src/base32.ts.  The 40-bit buffers are JavaScript BigInts; they are     *)
(* modelled as sequences of bits, least significant bit first.             *)
(***************************************************************************)
RECURSIVE BigInt(_)
BigInt(n) == IF n = 0 THEN <<>> ELSE <<n % 2>> \o BigInt(n \div 2)

BigOnes(n) == [k \in 1..n |-> 1]

BigShl(x, n) == [k \in 1..(Len(x) + n) |-> IF k <= n THEN 0 ELSE x[k - n]]

BigShr(x, n) == [k \in 1..(IF Len(x) > n THEN Len(x) - n ELSE 0) |-> x[k + n]]

BigOr(x, y) ==
    [k \in 1..(IF Len(x) > Len(y) THEN Len(x) ELSE Len(y)) |->
        IF (k <= Len(x) /\ x[k] = 1) \/ (k <= Len(y) /\ y[k] = 1) THEN 1 ELSE 0]

BigAnd(x, y) ==
    [k \in 1..(IF Len(x) < Len(y) THEN Len(x) ELSE Len(y)) |-> x[k] * y[k]]

BigIsZero(x) == \A k \in 1..Len(x) : x[k] = 0

RECURSIVE Number(_)
Number(x) == IF Len(x) = 0 THEN 0 ELSE x[1] + 2 * Number(Tail(x))

base32UpperCaseAlphabet == <<
    "A", "B", "C", "D", "E", "F", "G", "H", "I", "J", "K", "L", "M", "N", "O", "P",
    "Q", "R", "S", "T", "U", "V", "W", "X", "Y", "Z", "2", "3", "4", "5", "6", "7" >>

base32LowerCaseAlphabet == <<
    "a", "b", "c", "d", "e", "f", "g", "h", "i", "j", "k", "l", "m", "n", "o", "p",
    "q", "r", "s", "t", "u", "v", "w", "x", "y", "z", "2", "3", "4", "5", "6", "7" >>

\* faulty variant: the lower-case keys are missing
base32DecodeMap_upperOnly ==
    ("A" :> 0) @@ ("B" :> 1) @@ ("C" :> 2) @@ ("D" :> 3) @@ ("E" :> 4) @@ ("F" :> 5) @@
    ("G" :> 6) @@ ("H" :> 7) @@ ("I" :> 8) @@ ("J" :> 9) @@ ("K" :> 10) @@ ("L" :> 11) @@
    ("M" :> 12) @@ ("N" :> 13) @@ ("O" :> 14) @@ ("P" :> 15) @@ ("Q" :> 16) @@ ("R" :> 17) @@
    ("S" :> 18) @@ ("T" :> 19) @@ ("U" :> 20) @@ ("V" :> 21) @@ ("W" :> 22) @@ ("X" :> 23) @@
    ("Y" :> 24) @@ ("Z" :> 25) @@ ("2" :> 26) @@ ("3" :> 27) @@ ("4" :> 28) @@ ("5" :> 29) @@
    ("6" :> 30) @@ ("7" :> 31)

base32DecodeMap ==
    ("A" :> 0) @@ ("B" :> 1) @@ ("C" :> 2) @@ ("D" :> 3) @@ ("E" :> 4) @@ ("F" :> 5) @@
    ("G" :> 6) @@ ("H" :> 7) @@ ("I" :> 8) @@ ("J" :> 9) @@ ("K" :> 10) @@ ("L" :> 11) @@
    ("M" :> 12) @@ ("N" :> 13) @@ ("O" :> 14) @@ ("P" :> 15) @@ ("Q" :> 16) @@ ("R" :> 17) @@
    ("S" :> 18) @@ ("T" :> 19) @@ ("U" :> 20) @@ ("V" :> 21) @@ ("W" :> 22) @@ ("X" :> 23) @@
    ("Y" :> 24) @@ ("Z" :> 25) @@ ("a" :> 0) @@ ("b" :> 1) @@ ("c" :> 2) @@ ("d" :> 3) @@
    ("e" :> 4) @@ ("f" :> 5) @@ ("g" :> 6) @@ ("h" :> 7) @@ ("i" :> 8) @@ ("j" :> 9) @@
    ("k" :> 10) @@ ("l" :> 11) @@ ("m" :> 12) @@ ("n" :> 13) @@ ("o" :> 14) @@ ("p" :> 15) @@
    ("q" :> 16) @@ ("r" :> 17) @@ ("s" :> 18) @@ ("t" :> 19) @@ ("u" :> 20) @@ ("v" :> 21) @@
    ("w" :> 22) @@ ("x" :> 23) @@ ("y" :> 24) @@ ("z" :> 25) @@ ("2" :> 26) @@ ("3" :> 27) @@
    ("4" :> 28) @@ ("5" :> 29) @@ ("6" :> 30) @@ ("7" :> 31)

\* lines 107-111: read up to 5 bytes into the buffer
RECURSIVE encodeBase32_read(_, _, _, _, _)
encodeBase32_read(bytes, i, j, buffer, bufferBitSize) ==
    IF j < 5 /\ i + j < Len(bytes)
    THEN encodeBase32_read(bytes, i, j + 1,
             BigOr(BigShl(buffer, 8), BigInt(bytes[i + j + 1])), bufferBitSize + 8)
    ELSE [buffer |-> buffer, bufferBitSize |-> bufferBitSize]

\* faulty variant: the buffer is not aligned
encodeBase32_align_missing(b) == b

\* lines 114-117: fill the buffer up to a multiple of 5 bits
encodeBase32_align(b) ==
    IF b.bufferBitSize % 5 # 0
    THEN [buffer |-> BigShl(b.buffer, 5 - (b.bufferBitSize % 5)),
          bufferBitSize |-> b.bufferBitSize + (5 - (b.bufferBitSize % 5))]
    ELSE b

\* line 129
encodeBase32_padding(padding) == padding = Include

\* lines 120-133: emit the 8 characters of the chunk
RECURSIVE encodeBase32_emit(_, _, _, _, _, _)
encodeBase32_emit(alphabet, padding, j, buffer, bufferBitSize, acc) ==
    IF j >= 8 THEN acc
    ELSE IF bufferBitSize >= 5
    THEN encodeBase32_emit(alphabet, padding, j + 1, buffer, bufferBitSize - 5,
             Append(acc, CharAt(alphabet,
                 Number(BigAnd(BigShr(buffer, bufferBitSize - 5), BigOnes(5))))))
    ELSE IF bufferBitSize > 0
    THEN encodeBase32_emit(alphabet, padding, j + 1, buffer, 0,
             Append(acc, CharAt(alphabet,
                 Number(BigAnd(BigShl(buffer, 6 - bufferBitSize), BigOnes(6))))))
    ELSE IF encodeBase32_padding(padding)
    THEN encodeBase32_emit(alphabet, padding, j + 1, buffer, bufferBitSize,
             Append(acc, "="))
    ELSE encodeBase32_emit(alphabet, padding, j + 1, buffer, bufferBitSize, acc)

RECURSIVE encodeBase32_loop(_, _, _, _, _)
encodeBase32_loop(bytes, alphabet, padding, i, acc) ==
    IF i < Len(bytes)
    THEN LET b == encodeBase32_align(encodeBase32_read(bytes, i, 0, <<>>, 0))
         IN  encodeBase32_loop(bytes, alphabet, padding, i + 5,
                 encodeBase32_emit(alphabet, padding, 0, b.buffer, b.bufferBitSize, acc))
    ELSE acc

encodeBase32_internal(bytes, alphabet, padding) ==
    encodeBase32_loop(bytes, alphabet, padding, 0, <<>>)

encodeBase32UpperCase(bytes) ==
    encodeBase32_internal(bytes, base32UpperCaseAlphabet, Include)

encodeBase32UpperCaseNoPadding(bytes) ==
    encodeBase32_internal(bytes, base32UpperCaseAlphabet, None)

encodeBase32LowerCase(bytes) ==
    encodeBase32_internal(bytes, base32LowerCaseAlphabet, Include)

encodeBase32LowerCaseNoPadding(bytes) ==
    encodeBase32_internal(bytes, base32LowerCaseAlphabet, None)

\* faulty variant: Required mode skips the end of input as Ignore mode does
decodeBase32_skip_lenient(text, padding, i, j) ==
    IF i + j >= Len(text) \/ CharAt(text, i + j) = "=" THEN "skip" ELSE "read"

\* lines 192-206: "skip" for continue, "throw" for the Required-mode end of
\* input, "read" otherwise
decodeBase32_skip(text, padding, i, j) ==
    IF padding = Required /\ CharAt(text, i + j) = "=" THEN "skip"
    ELSE IF padding = Required /\ i + j >= Len(text) THEN "throw"
    ELSE IF padding = Ignore /\ (i + j >= Len(text) \/ CharAt(text, i + j) = "=")
    THEN "skip"
    ELSE "read"

\* faulty variant: looks at the next character instead of the previous
decodeBase32_afterPad_next(text, i, j) == j > 0 /\ CharAt(text, i + j + 1) = "="

\* line 209: a character right after a pad character
decodeBase32_afterPad(text, i, j) == j > 0 /\ CharAt(text, i + j - 1) = "="

\* lines 190-221: the inner loop over the 8 positions of a window
RECURSIVE decodeBase32_window(_, _, _, _, _, _, _)
decodeBase32_window(text, map, padding, i, j, chunk, bitsRead) ==
    IF j >= 8 THEN [err |-> "", j |-> j, chunk |-> chunk, bitsRead |-> bitsRead]
    ELSE IF decodeBase32_skip(text, padding, i, j) = "skip"
    THEN decodeBase32_window(text, map, padding, i, j + 1, chunk, bitsRead)
    ELSE IF decodeBase32_skip(text, padding, i, j) = "throw"
    THEN [err |-> "Invalid padding", j |-> j, chunk |-> chunk, bitsRead |-> bitsRead]
    ELSE IF decodeBase32_afterPad(text, i, j)
    THEN [err |-> "Invalid padding", j |-> j, chunk |-> chunk, bitsRead |-> bitsRead]
    ELSE IF CharAt(text, i + j) \notin DOMAIN map
    THEN [err |-> "Invalid character", j |-> j, chunk |-> chunk, bitsRead |-> bitsRead]
    ELSE decodeBase32_window(text, map, padding, i, j + 1,
             BigOr(chunk, BigShl(BigInt(map[CharAt(text, i + j)]), (7 - j) * 5)),
             bitsRead + 5)

\* faulty variant: a window of 3 characters (15 bits) is let through
decodeBase32_shortInvalid_15(chunk, bitsRead) ==
    /\ bitsRead < 40
    /\ IF bitsRead = 10 THEN ~BigIsZero(BigAnd(chunk, BigOnes(32)))
       ELSE IF bitsRead = 15 THEN ~BigIsZero(BigAnd(chunk, BigOnes(32)))
       ELSE IF bitsRead = 20 THEN ~BigIsZero(BigAnd(chunk, BigOnes(24)))
       ELSE IF bitsRead = 25 THEN ~BigIsZero(BigAnd(chunk, BigOnes(16)))
       ELSE IF bitsRead = 35 THEN ~BigIsZero(BigAnd(chunk, BigOnes(8)))
       ELSE TRUE

\* lines 224-242: TRUE when the short-window check throws
decodeBase32_shortInvalid(chunk, bitsRead) ==
    /\ bitsRead < 40
    /\ IF bitsRead = 10 THEN ~BigIsZero(BigAnd(chunk, BigOnes(32)))
       ELSE IF bitsRead = 20 THEN ~BigIsZero(BigAnd(chunk, BigOnes(24)))
       ELSE IF bitsRead = 25 THEN ~BigIsZero(BigAnd(chunk, BigOnes(16)))
       ELSE IF bitsRead = 35 THEN ~BigIsZero(BigAnd(chunk, BigOnes(8)))
       ELSE TRUE

\* lines 245-250: the bytes of the window, most significant first
decodeBase32_bytes(chunk, bitsRead) ==
    [b \in 1..(bitsRead \div 8) |->
        Number(BigAnd(BigShr(chunk, 32 - (b - 1) * 8), BigOnes(8)))]

RECURSIVE decodeBase32_loop(_, _, _, _, _)
decodeBase32_loop(text, map, padding, i, acc) ==
    IF i < Len(text)
    THEN LET w == decodeBase32_window(text, map, padding, i, 0, <<>>, 0)
         IN  IF w.err # "" THEN Throw(w.err, i, w.j)
             ELSE IF decodeBase32_shortInvalid(w.chunk, w.bitsRead)
             THEN Throw("Invalid padding", i, 8)
             ELSE decodeBase32_loop(text, map, padding, i + 8,
                      acc \o decodeBase32_bytes(w.chunk, w.bitsRead))
    ELSE Ok(acc)

decodeBase32_internal(text, map, padding) == decodeBase32_loop(text, map, padding, 0, <<>>)

decodeBase32(text) == decodeBase32_internal(text, base32DecodeMap, Required)

decodeBase32IgnorePadding(text) == decodeBase32_internal(text, base32DecodeMap, Ignore)

(***************************************************************************)
(* The inputs the callers supply.                                          *)
(***************************************************************************)
SeqsUpTo(S, n) == UNION {[1..m -> S] : m \in 0..n}

ByteVals == {0, 165, 255}

Hello == <<72, 101, 108, 108, 111>>

ByteSeqs == SeqsUpTo(ByteVals, MaxBytes) \cup {Hello, <<255, 10, 15>>}

HexChars == {"0", "a", "A", "f", "F", "g"}

HexTexts ==
    SeqsUpTo(HexChars, MaxHexLen)
        \cup {<<"f", "f", "0", "a", "0", "F">>, <<"a", "b", "c">>}

Base64Chars == {"A", "I", "b", "=", "+", "-"}

Base64Heads == {<<>>, <<"b", "I", "A", "b">>, <<"b", "A", "=", "=">>}

Base64Texts ==
    {h \o s : h \in Base64Heads, s \in SeqsUpTo(Base64Chars, MaxBase64Len)}
        \cup {<<"S", "G", "V", "s", "b", "G", "8", "=">>,
              <<"S", "G", "V", "s", "b", "G", "8">>,
              <<"S", "G", "=", "s", "b", "G", "8", "=">>,
              <<"s", "g", "v", "s", "b", "g", "8", "=">>}

Base32Chars == {"A", "b", "="}

Base32Heads ==
    {<<>>, <<"b", "A", "b", "A", "b", "A", "b", "A">>,
     <<"b", "A", "=", "=", "=", "=", "=", "=">>}

Base32Texts ==
    SeqsUpTo(Base32Chars, MaxBase32Len)
        \cup {h \o s : h \in Base32Heads,
                       s \in SeqsUpTo(Base32Chars \cup {"1"}, MaxBase32Tail)}
        \cup {<<"J", "B", "S", "W", "Y", "3", "D", "P">>}

HexEncoders == {"encodeHexUpperCase", "encodeHexLowerCase"}

Base32Encoders ==
    {"encodeBase32UpperCase", "encodeBase32UpperCaseNoPadding",
     "encodeBase32LowerCase", "encodeBase32LowerCaseNoPadding"}

Base64Encoders ==
    {"encodeBase64", "encodeBase64NoPadding", "encodeBase64url",
     "encodeBase64urlNoPadding"}

NoResult == [ok |-> FALSE, bytes |-> <<>>, err |-> "none", i |-> 0, j |-> 0]

Init ==
    /\ data = <<>>
    /\ encoder = "none"
    /\ encoded = <<>>
    /\ decoder = "none"
    /\ result = NoResult

\* nothing has been called yet
Idle == encoder = "none" /\ decoder = "none"

\* a caller encodes a byte sequence
Encode(name, bytes, text) ==
    /\ data' = bytes
    /\ encoder' = name
    /\ encoded' = text
    /\ UNCHANGED <<decoder, result>>

\* a caller decodes a string of its own
DecodeText(name, text, outcome) ==
    /\ encoded' = text
    /\ decoder' = name
    /\ result' = outcome
    /\ UNCHANGED <<data, encoder>>

\* a caller decodes what an encoder returned
DecodeEncoded(name, outcome) ==
    /\ decoder' = name
    /\ result' = outcome
    /\ UNCHANGED <<data, encoder, encoded>>

EncodeHexUpperCase ==
    Idle /\ \E b \in ByteSeqs : Encode("encodeHexUpperCase", b, encodeHexUpperCase(b))

EncodeHexLowerCase ==
    Idle /\ \E b \in ByteSeqs : Encode("encodeHexLowerCase", b, encodeHexLowerCase(b))

DecodeHex ==
    \/ Idle /\ \E s \in HexTexts : DecodeText("decodeHex", s, decodeHex(s))
    \/ decoder = "none" /\ encoder \in HexEncoders /\ DecodeEncoded("decodeHex", decodeHex(encoded))

EncodeBase32UpperCase ==
    Idle /\ \E b \in ByteSeqs :
        Encode("encodeBase32UpperCase", b, encodeBase32UpperCase(b))

EncodeBase32UpperCaseNoPadding ==
    Idle /\ \E b \in ByteSeqs :
        Encode("encodeBase32UpperCaseNoPadding", b, encodeBase32UpperCaseNoPadding(b))

EncodeBase32LowerCase ==
    Idle /\ \E b \in ByteSeqs :
        Encode("encodeBase32LowerCase", b, encodeBase32LowerCase(b))

EncodeBase32LowerCaseNoPadding ==
    Idle /\ \E b \in ByteSeqs :
        Encode("encodeBase32LowerCaseNoPadding", b, encodeBase32LowerCaseNoPadding(b))

DecodeBase32 ==
    \/ Idle /\ \E s \in Base32Texts : DecodeText("decodeBase32", s, decodeBase32(s))
    \/ decoder = "none" /\ encoder \in Base32Encoders
           /\ DecodeEncoded("decodeBase32", decodeBase32(encoded))

DecodeBase32IgnorePadding ==
    \/ Idle /\ \E s \in Base32Texts :
           DecodeText("decodeBase32IgnorePadding", s, decodeBase32IgnorePadding(s))
    \/ decoder = "none" /\ encoder \in Base32Encoders
           /\ DecodeEncoded("decodeBase32IgnorePadding",
                            decodeBase32IgnorePadding(encoded))

EncodeBase64 ==
    Idle /\ \E b \in ByteSeqs : Encode("encodeBase64", b, encodeBase64(b))

EncodeBase64NoPadding ==
    Idle /\ \E b \in ByteSeqs : Encode("encodeBase64NoPadding", b, encodeBase64NoPadding(b))

EncodeBase64url ==
    Idle /\ \E b \in ByteSeqs : Encode("encodeBase64url", b, encodeBase64url(b))

EncodeBase64urlNoPadding ==
    Idle /\ \E b \in ByteSeqs :
        Encode("encodeBase64urlNoPadding", b, encodeBase64urlNoPadding(b))

DecodeBase64 ==
    \/ Idle /\ \E s \in Base64Texts : DecodeText("decodeBase64", s, decodeBase64(s))
    \/ decoder = "none" /\ encoder \in Base64Encoders
           /\ DecodeEncoded("decodeBase64", decodeBase64(encoded))

DecodeBase64IgnorePadding ==
    \/ Idle /\ \E s \in Base64Texts :
           DecodeText("decodeBase64IgnorePadding", s, decodeBase64IgnorePadding(s))
    \/ decoder = "none" /\ encoder \in Base64Encoders
           /\ DecodeEncoded("decodeBase64IgnorePadding",
                            decodeBase64IgnorePadding(encoded))

DecodeBase64url ==
    \/ Idle /\ \E s \in Base64Texts : DecodeText("decodeBase64url", s, decodeBase64url(s))
    \/ decoder = "none" /\ encoder \in Base64Encoders
           /\ DecodeEncoded("decodeBase64url", decodeBase64url(encoded))

DecodeBase64urlIgnorePadding ==
    \/ Idle /\ \E s \in Base64Texts :
           DecodeText("decodeBase64urlIgnorePadding", s,
                      decodeBase64urlIgnorePadding(s))
    \/ decoder = "none" /\ encoder \in Base64Encoders
           /\ DecodeEncoded("decodeBase64urlIgnorePadding",
                            decodeBase64urlIgnorePadding(encoded))

Next ==
    \/ EncodeHexUpperCase
    \/ EncodeHexLowerCase
    \/ DecodeHex
    \/ EncodeBase32UpperCase
    \/ EncodeBase32UpperCaseNoPadding
    \/ EncodeBase32LowerCase
    \/ EncodeBase32LowerCaseNoPadding
    \/ DecodeBase32
    \/ DecodeBase32IgnorePadding
    \/ EncodeBase64
    \/ EncodeBase64NoPadding
    \/ EncodeBase64url
    \/ EncodeBase64urlNoPadding
    \/ DecodeBase64
    \/ DecodeBase64IgnorePadding
    \/ DecodeBase64url
    \/ DecodeBase64urlIgnorePadding

Spec == Init /\ [][Next]_vars

(***************************************************************************)
(* Vocabulary of the properties.                                           *)
(***************************************************************************)
HexDecoders == {"decodeHex"}

Base32Decoders == {"decodeBase32", "decodeBase32IgnorePadding"}

Base64Decoders ==
    {"decodeBase64", "decodeBase64IgnorePadding", "decodeBase64url",
     "decodeBase64urlIgnorePadding"}

RequiredDecoders == {"decodeBase32", "decodeBase64", "decodeBase64url"}

IgnoreDecoders ==
    {"decodeBase32IgnorePadding", "decodeBase64IgnorePadding",
     "decodeBase64urlIgnorePadding"}

WindowDecoders == Base32Decoders \cup Base64Decoders

\* the decode function the spec pairs with each encode function
PairedDecoder ==
    [e \in HexEncoders \cup Base32Encoders \cup Base64Encoders |->
        CASE e \in HexEncoders -> "decodeHex"
          [] e \in {"encodeBase32UpperCase", "encodeBase32LowerCase"} -> "decodeBase32"
          [] e \in {"encodeBase32UpperCaseNoPadding", "encodeBase32LowerCaseNoPadding"}
                 -> "decodeBase32IgnorePadding"
          [] e = "encodeBase64" -> "decodeBase64"
          [] e = "encodeBase64NoPadding" -> "decodeBase64IgnorePadding"
          [] e = "encodeBase64url" -> "decodeBase64url"
          [] e = "encodeBase64urlNoPadding" -> "decodeBase64urlIgnorePadding"]

\* window size in characters, group width in bits, decode map of a decoder
WindowOf(d) == IF d \in Base32Decoders THEN 8 ELSE 4

GroupBitsOf(d) == IF d \in Base32Decoders THEN 5 ELSE 6

MapOf(d) ==
    IF d \in Base32Decoders THEN base32DecodeMap
    ELSE IF d \in {"decodeBase64", "decodeBase64IgnorePadding"} THEN base64DecodeMap
    ELSE base64urlDecodeMap

CeilDiv(n, d) == (n + d - 1) \div d

\* what the caller observes: the bytes, or the failure and its reason
Outcome(r) == [ok |-> r.ok, bytes |-> r.bytes, err |-> r.err]

(***************************************************************************)
(* C1  Round trip: whenever a byte sequence was encoded and the text was   *)
(* then decoded by the decoder paired with that encoder, the decoder       *)
(* returned (did not throw) exactly the bytes that were encoded.           *)
(***************************************************************************)
C1_RoundTrip ==
    (encoder # "none" /\ decoder # "none" /\ decoder = PairedDecoder[encoder])
        => (result.ok /\ result.bytes = data)

\* two chunks, the second one short, through the unpadded Base32 pair
C1_Witness ==
    /\ encoder = "encodeBase32LowerCaseNoPadding"
    /\ decoder = "decodeBase32IgnorePadding"
    /\ Len(data) = 6
    /\ data[6] = 165
    /\ Len(encoded) = 10
    /\ result.ok
    /\ result.bytes = data

(***************************************************************************)
(* C6  Length growth: a padded Base64/Base64url encoding of n bytes has    *)
(* 4*ceil(n/3) characters, a padded Base32 encoding 8*ceil(n/5), a hex     *)
(* encoding 2n; every "=" of an encoding lies in the last output chunk and *)
(* is followed only by "=".                                                *)
(***************************************************************************)
ChunkCharsOf(e) ==
    IF e \in Base64Encoders THEN 4 ELSE IF e \in Base32Encoders THEN 8 ELSE 2

C6_LengthGrowth ==
    encoder # "none" =>
        /\ encoder \in {"encodeBase64", "encodeBase64url"}
               => Len(encoded) = 4 * CeilDiv(Len(data), 3)
        /\ encoder \in {"encodeBase32UpperCase", "encodeBase32LowerCase"}
               => Len(encoded) = 8 * CeilDiv(Len(data), 5)
        /\ encoder \in HexEncoders => Len(encoded) = 2 * Len(data)
        /\ Len(data) = 0 => encoded = <<>>
        /\ \A k \in 1..Len(encoded) :
               encoded[k] = "=" =>
                   /\ k > Len(encoded) - ChunkCharsOf(encoder)
                   /\ \A m \in k..Len(encoded) : encoded[m] = "="

\* 6 bytes in padded Base32: a full chunk and a chunk of 2 characters + 6 pads
C6_Witness ==
    /\ encoder = "encodeBase32UpperCase"
    /\ Len(data) = 6
    /\ Len(encoded) = 16
    /\ encoded[10] # "="
    /\ encoded[11] = "="
    /\ encoded[16] = "="

(***************************************************************************)
(* C7  Odd-length hex: decodeHex of a string of odd length throws the      *)
(* odd-length error whatever the characters are and returns nothing;       *)
(* decodeHex of a string of even length never throws that error.           *)
(***************************************************************************)
C7_OddLengthHex ==
    decoder = "decodeHex" =>
        IF Len(encoded) % 2 = 1
        THEN ~result.ok /\ result.err = "Invalid hex string" /\ result.bytes = <<>>
        ELSE result.err # "Invalid hex string"

\* an odd-length string whose first character is outside the decode map
C7_Witness ==
    /\ decoder = "decodeHex"
    /\ Len(encoded) = 3
    /\ encoded[1] = "g"
    /\ result.err = "Invalid hex string"

(***************************************************************************)
(* C10  Required mode demands whole windows: decodeBase64, decodeBase64url *)
(* and decodeBase32 throw on every input whose length is not a multiple of *)
(* the window size and return nothing; "SGVsbG8" is rejected by            *)
(* decodeBase64 and decoded to "Hello" by decodeBase64IgnorePadding.       *)
(***************************************************************************)
SGVsbG8 == <<"S", "G", "V", "s", "b", "G", "8">>

C10_RequiredWholeWindows ==
    /\ (decoder \in RequiredDecoders /\ Len(encoded) % WindowOf(decoder) # 0)
           => (~result.ok /\ result.bytes = <<>>)
    /\ (decoder \in RequiredDecoders /\ result.ok /\ Len(encoded) > 0)
           => (Len(encoded) >= WindowOf(decoder)
               /\ Len(encoded) % WindowOf(decoder) = 0)
    /\ (decoder = "decodeBase64IgnorePadding" /\ encoded = SGVsbG8)
           => (result.ok /\ result.bytes = Hello)

\* the unpadded example given to the strict decoder
C10_Witness ==
    /\ decoder = "decodeBase64"
    /\ encoder = "none"
    /\ encoded = SGVsbG8
    /\ ~result.ok

(***************************************************************************)
(* C9  Ignore mode is Required mode on the padded input: an Ignore-mode    *)
(* decoder has the same outcome (the same bytes, or failure with the same  *)
(* reason) as its Required-mode counterpart applied to the input with "="  *)
(* appended up to the next multiple of the window size.                    *)
(***************************************************************************)
PadTo(s, w) == s \o [k \in 1..((w - (Len(s) % w)) % w) |-> "="]

RequiredCounterpart(d, s) ==
    CASE d = "decodeBase32IgnorePadding" -> decodeBase32(s)
      [] d = "decodeBase64IgnorePadding" -> decodeBase64(s)
      [] d = "decodeBase64urlIgnorePadding" -> decodeBase64url(s)

C9_IgnoreIsRequiredOnPadded ==
    decoder \in IgnoreDecoders =>
        Outcome(result)
            = Outcome(RequiredCounterpart(decoder, PadTo(encoded, WindowOf(decoder))))

\* a truncated tail of 4 characters that Base32 Ignore mode accepts
C9_Witness ==
    /\ decoder = "decodeBase32IgnorePadding"
    /\ encoder = "none"
    /\ Len(encoded) = 4
    /\ result.ok
    /\ Len(result.bytes) = 2
    /\ decodeBase32(encoded).err = "Invalid padding"

(***************************************************************************)
(* C8  Case: decodeHex, decodeBase32 and decodeBase32IgnorePadding have    *)
(* the same outcome on every string obtained by changing the case of       *)
(* letters of the input; in an accepted Base64/Base64url input, changing   *)
(* the case of a letter of a full window changes the decoded bytes.        *)
(***************************************************************************)
LowerLetters ==
    <<"a", "b", "c", "d", "e", "f", "g", "h", "i", "j", "k", "l", "m",
      "n", "o", "p", "q", "r", "s", "t", "u", "v", "w", "x", "y", "z">>

UpperLetters ==
    <<"A", "B", "C", "D", "E", "F", "G", "H", "I", "J", "K", "L", "M",
      "N", "O", "P", "Q", "R", "S", "T", "U", "V", "W", "X", "Y", "Z">>

IsLower(c) == \E k \in 1..26 : LowerLetters[k] = c

IsUpper(c) == \E k \in 1..26 : UpperLetters[k] = c

ToUpperChar(c) ==
    IF IsLower(c) THEN UpperLetters[CHOOSE k \in 1..26 : LowerLetters[k] = c] ELSE c

ToLowerChar(c) ==
    IF IsUpper(c) THEN LowerLetters[CHOOSE k \in 1..26 : UpperLetters[k] = c] ELSE c

SwapCaseChar(c) == IF IsLower(c) THEN ToUpperChar(c) ELSE ToLowerChar(c)

\* the strings that differ from s in the case of the letters at positions P
SwapCase(s, P) == [k \in 1..Len(s) |-> IF k \in P THEN SwapCaseChar(s[k]) ELSE s[k]]

\* all case variants of a short string; of a longer one the all-upper and
\* the all-lower variant
MaxAllVariants == 4

CaseVariants(s) ==
    IF Len(s) <= MaxAllVariants
    THEN {SwapCase(s, P) : P \in SUBSET (1..Len(s))}
    ELSE {[k \in 1..Len(s) |-> ToUpperChar(s[k])],
          [k \in 1..Len(s) |-> ToLowerChar(s[k])]}

Redecode(d, s) ==
    CASE d = "decodeHex" -> decodeHex(s)
      [] d = "decodeBase32" -> decodeBase32(s)
      [] d = "decodeBase32IgnorePadding" -> decodeBase32IgnorePadding(s)
      [] d = "decodeBase64" -> decodeBase64(s)
      [] d = "decodeBase64IgnorePadding" -> decodeBase64IgnorePadding(s)
      [] d = "decodeBase64url" -> decodeBase64url(s)
      [] d = "decodeBase64urlIgnorePadding" -> decodeBase64urlIgnorePadding(s)

\* position k (from 1) lies in a window of 4 data characters
InFullWindow(s, map, k) ==
    LET i == ((k - 1) \div 4) * 4
    IN  \A j \in 0..3 : CharAt(s, i + j) \in DOMAIN map

C8_Case ==
    /\ decoder \in HexDecoders \cup Base32Decoders =>
           \A v \in CaseVariants(encoded) :
               LET r == Redecode(decoder, v)
               IN  r.ok = result.ok /\ r.bytes = result.bytes
    /\ (decoder \in Base64Decoders /\ result.ok) =>
           \A k \in 1..Len(encoded) :
               ((IsLower(encoded[k]) \/ IsUpper(encoded[k]))
                    /\ InFullWindow(encoded, MapOf(decoder), k))
                   => LET r == Redecode(decoder, SwapCase(encoded, {k}))
                      IN  r.ok /\ r.bytes # result.bytes

\* an accepted Base32 input of mixed case
C8_Witness ==
    /\ decoder = "decodeBase32"
    /\ Len(encoded) = 8
    /\ encoded[1] = "b"
    /\ encoded[2] = "A"
    /\ encoded[3] = "b"
    /\ result.ok
    /\ Len(result.bytes) = 5

(***************************************************************************)
(* Windows of a decoder's input, read off the input itself.                *)
(***************************************************************************)
\* position p (from 0) holds no data: a pad character or the end of input
Gap(s, p) == p >= Len(s) \/ s[p + 1] = "="

WindowStarts(s, w) == {i \in 0..(Len(s) - 1) : i % w = 0}

DataCount(s, i, w) == Cardinality({j \in 0..(w - 1) : ~Gap(s, i + j)})

\* the decoder went past position j of the window at i
SawPosition(r, i, j) == r.ok \/ r.i > i \/ (r.i = i /\ r.j > j)

\* the decoder finished the inner loop of the window at i
ReachedCheck(r, i, w) == r.ok \/ r.i > i \/ (r.i = i /\ r.j = w)

\* the k bits of a group value, most significant first
GroupBits(v, k) == [b \in 1..k |-> (v \div (2 ^ (k - b))) % 2]

ValueOf(map, c) == IF c \in DOMAIN map THEN map[c] ELSE 0

\* the bits the data characters of the window at i stand for, in order
RECURSIVE WindowBits(_, _, _, _, _, _)
WindowBits(s, map, k, w, i, j) ==
    IF j >= w THEN <<>>
    ELSE (IF Gap(s, i + j) THEN <<>> ELSE GroupBits(ValueOf(map, s[i + j + 1]), k))
             \o WindowBits(s, map, k, w, i, j + 1)

\* the bits after the last whole byte
TrailingBits(bits) == SubSeq(bits, 8 * (Len(bits) \div 8) + 1, Len(bits))

\* byte m (from 1) of a bit string
ByteOfBits(bits, m) ==
    LET b(t) == bits[8 * (m - 1) + t]
    IN  128 * b(1) + 64 * b(2) + 32 * b(3) + 16 * b(4)
            + 8 * b(5) + 4 * b(6) + 2 * b(7) + b(8)

WholeBytes(bits) == [m \in 1..(Len(bits) \div 8) |-> ByteOfBits(bits, m)]

RECURSIVE ExpectedBytes(_, _, _, _, _)
ExpectedBytes(s, map, k, w, i) ==
    IF i >= Len(s) THEN <<>>
    ELSE WholeBytes(WindowBits(s, map, k, w, i, 0))
             \o ExpectedBytes(s, map, k, w, i + w)

(***************************************************************************)
(* C3  Padding order: if a window holds a pad character (in Ignore mode    *)
(* also the end of input) at position j and an in-alphabet character at a  *)
(* later position of the same window, the decode fails, and with "Invalid  *)
(* padding" whenever the decoder got as far as position j; so in every     *)
(* accepted input the data characters of each window are a prefix of it.   *)
(***************************************************************************)
C3_PaddingOrder ==
    decoder \in WindowDecoders =>
        LET w == WindowOf(decoder)
            map == MapOf(decoder)
        IN  \A i \in WindowStarts(encoded, w) :
                \A j \in 0..(w - 2) :
                    \A j2 \in (j + 1)..(w - 1) :
                        /\ (Gap(encoded, i + j) /\ CharAt(encoded, i + j2) \in DOMAIN map)
                               => /\ ~result.ok
                                  /\ result.bytes = <<>>
                                  /\ SawPosition(result, i, j)
                                         => (result.err = "Invalid padding" /\ result.i = i)
                        /\ (result.ok /\ Gap(encoded, i + j)) => Gap(encoded, i + j2)

\* a run of two pads from position 0, then a data character
C3_Witness ==
    /\ decoder = "decodeBase32"
    /\ Len(encoded) = 8
    /\ encoded[1] = "="
    /\ encoded[2] = "="
    /\ encoded[3] = "="
    /\ encoded[4] = "A"
    /\ result.err = "Invalid padding"
    /\ result.i = 0
    /\ result.j = 3

(***************************************************************************)
(* C2  Nonzero unused bits: when the decoder has read a window that holds  *)
(* fewer data characters than the window size and a bit after the last     *)
(* whole byte of their bit string is 1, the decode fails with "Invalid     *)
(* padding" and returns nothing.                                           *)
(***************************************************************************)
C2_UnusedBitsZero ==
    decoder \in WindowDecoders =>
        LET w == WindowOf(decoder)
            map == MapOf(decoder)
            k == GroupBitsOf(decoder)
        IN  \A i \in WindowStarts(encoded, w) :
                (/\ ReachedCheck(result, i, w)
                 /\ DataCount(encoded, i, w) < w
                 /\ \E b \in 1..Len(TrailingBits(WindowBits(encoded, map, k, w, i, 0))) :
                        TrailingBits(WindowBits(encoded, map, k, w, i, 0))[b] = 1)
                    => (~result.ok /\ result.err = "Invalid padding"
                            /\ result.bytes = <<>>)

\* 3 data characters whose 3rd has nonzero low 2 bits, then a pad
C2_Witness ==
    /\ decoder = "decodeBase64"
    /\ encoded = <<"A", "A", "b", "=">>
    /\ result.err = "Invalid padding"
    /\ result.i = 0
    /\ result.j = 4

(***************************************************************************)
(* C4  Short windows: when the decoder has read a window that holds fewer  *)
(* data characters than the window size, the decode fails with "Invalid    *)
(* padding" unless the window contributes 12 or 18 bits (Base64) or 10,    *)
(* 20, 25 or 35 bits (Base32); an accepted input decodes, window by        *)
(* window, to the first floor(bits / 8) bytes of the window's bit string.  *)
(***************************************************************************)
ValidShortBits(d) == IF d \in Base32Decoders THEN {10, 20, 25, 35} ELSE {12, 18}

C4_ShortWindows ==
    decoder \in WindowDecoders =>
        LET w == WindowOf(decoder)
            map == MapOf(decoder)
            k == GroupBitsOf(decoder)
        IN  /\ \A i \in WindowStarts(encoded, w) :
                   (/\ ReachedCheck(result, i, w)
                    /\ DataCount(encoded, i, w) < w
                    /\ k * DataCount(encoded, i, w) \notin ValidShortBits(decoder))
                       => (~result.ok /\ result.err = "Invalid padding"
                               /\ result.bytes = <<>>)
            /\ result.ok => result.bytes = ExpectedBytes(encoded, map, k, w, 0)

\* a Base32 window of 5 data characters gives 3 bytes
C4_Witness ==
    /\ decoder = "decodeBase32"
    /\ encoded = <<"b", "A", "b", "A", "A", "=", "=", "=">>
    /\ result.ok
    /\ result.bytes = <<8, 2, 0>>

(***************************************************************************)
(* C5  "Invalid character", as claimed: (a) a decode that stops at a       *)
(* character that is neither "=" nor a key of the decode map fails with    *)
(* "Invalid character"; (b) an input of in-alphabet characters and "="     *)
(* never fails with "Invalid character".                                   *)
(***************************************************************************)
StopPos == result.i + result.j

StoppedInWindow == ~result.ok /\ result.j < WindowOf(decoder)

OutOfMap(c, map) == c \notin DOMAIN map /\ c # "="

C5_InvalidCharacter_Claimed ==
    decoder \in WindowDecoders =>
        /\ (StoppedInWindow /\ StopPos < Len(encoded)
                /\ OutOfMap(CharAt(encoded, StopPos), MapOf(decoder)))
               => result.err = "Invalid character"
        /\ (\A p \in 1..Len(encoded) : ~OutOfMap(encoded[p], MapOf(decoder)))
               => result.err # "Invalid character"

(***************************************************************************)
(* C5 (amended)  A decode fails with "Invalid character" exactly when it   *)
(* stops at a position that does not directly follow a "=" of the same     *)
(* window and holds a character that is neither "=" nor a key of the       *)
(* decode map, where for decodeBase64 and decodeBase64url (Required mode)  *)
(* a position past the end of the input counts as such a character.  An    *)
(* out-of-map character directly after a "=" of its window yields "Invalid *)
(* padding"; an input of in-alphabet characters and "=" fails with         *)
(* "Invalid character" only as an input to decodeBase64 or decodeBase64url *)
(* whose length is not a multiple of 4.                                    *)
(***************************************************************************)
StopAfterPad == result.j > 0 /\ CharAt(encoded, StopPos - 1) = "="

C5_InvalidCharacter ==
    decoder \in WindowDecoders =>
        /\ result.err = "Invalid character"
               <=> /\ StoppedInWindow
                   /\ OutOfMap(CharAt(encoded, StopPos), MapOf(decoder))
                   /\ ~StopAfterPad
                   /\ StopPos >= Len(encoded)
                          => decoder \in {"decodeBase64", "decodeBase64url"}
        /\ (StoppedInWindow /\ StopPos < Len(encoded)
                /\ OutOfMap(CharAt(encoded, StopPos), MapOf(decoder)))
               => result.err = (IF StopAfterPad THEN "Invalid padding"
                                ELSE "Invalid character")
        /\ ((\A p \in 1..Len(encoded) : ~OutOfMap(encoded[p], MapOf(decoder)))
                /\ result.err = "Invalid character")
               => (decoder \in {"decodeBase64", "decodeBase64url"}
                       /\ Len(encoded) % 4 # 0)

\* a crossover character directly after a pad: the reason is the padding
C5_Witness ==
    /\ decoder = "decodeBase64"
    /\ Len(encoded) = 4
    /\ encoded[1] = "A"
    /\ encoded[2] = "="
    /\ encoded[3] = "-"
    /\ result.err = "Invalid padding"
    /\ result.i = 0
    /\ result.j = 2

(***************************************************************************)
(* C11  Canonical input: every string that decodeBase64 accepts is the     *)
(* encodeBase64 encoding of the bytes it decodes to, likewise for          *)
(* decodeBase64url with encodeBase64url and, for strings without           *)
(* lower-case letters, for decodeBase32 with encodeBase32UpperCase; so an  *)
(* accepted string has "=" only in its final window.                       *)
(***************************************************************************)
C11_StrictIsCanonical ==
    (decoder \in RequiredDecoders /\ result.ok) =>
        /\ decoder = "decodeBase64" => encodeBase64(result.bytes) = encoded
        /\ decoder = "decodeBase64url" => encodeBase64url(result.bytes) = encoded
        /\ (decoder = "decodeBase32" /\ \A p \in 1..Len(encoded) : ~IsLower(encoded[p]))
               => encodeBase32UpperCase(result.bytes) = encoded
        /\ \A p \in 1..Len(encoded) :
               encoded[p] = "=" => p > Len(encoded) - WindowOf(decoder)
====
